---- MODULE Spec2Model ----
(***************************************************************************)
(* Creek_monitor: the module-level refresh pipeline of app.py (site token  *)
(* resolution, numeric cleaning, week bucketing, latest selection, catalog *)
(* join) and the pick_nearest_site callback, as state machines.            *)
(*                                                                         *)
(* Text is a sequence of one-character strings.  A missing cell (pandas    *)
(* NaN / None) of a numeric or text column is the empty tuple NA; a number *)
(* is the pair <<numerator, denominator>> in lowest terms, so that a mean  *)
(* is exact.                                                               *)
(***************************************************************************)
EXTENDS Integers, Sequences, FiniteSets, TLC

VARIABLES
    \* ---- the refresh pipeline (module level of app.py) ----
    csv_results,     \* rows of data/Updated results.csv
    csv_site_loc,    \* rows of data/Site_loc.csv
    df,              \* the global df, rewritten by every stage
    site_loc,        \* the global site_loc
    df_recent,       \* the global df_recent
    site,            \* the global site (catalog joined with df_recent)
    pc,              \* position of the module-level script
    \* ---- the pick_nearest_site callback ----
    address,         \* State("address_input", "value") of the running call
    idx,             \* position of the loop over site.iterrows()
    best,            \* the running best (best_site, best_meters, best_time)
    responses,       \* what gmaps.directions answered, per site, this call
    npc,             \* position of the callback
    ret,             \* what the callback returned or raised
    sampling_sites,  \* the dropdown's value
    distance_alert,  \* the alert's children and is_open
    \* ---- the other readers of the tables ----
    bar_dat,         \* update_graph: the rows of df it last selected
    tool             \* chatbot.py: the last tool call and what it returned

pvars == <<csv_results, csv_site_loc, df, site_loc, df_recent, site, pc>>
pvars_tables == <<csv_results, csv_site_loc, df, site_loc, df_recent, site>>
nvars == <<address, idx, best, responses, npc, ret, sampling_sites, distance_alert>>
qvars == <<bar_dat, tool>>
vars == <<csv_results, csv_site_loc, df, site_loc, df_recent, site, pc,
          address, idx, best, responses, npc, ret, sampling_sites, distance_alert,
          bar_dat, tool>>

----------------------------------------------------------------------------
\* Bounds of the model.
MaxDist == 2     \* largest leg distance (meters) a route reports
MaxTime == 2     \* largest leg duration (seconds) a route reports
MaxTokenLen == 3 \* longest raw site token
MaxCodeLen == 2  \* longest catalog code
MaxCatalog == 2  \* most rows of the catalog in token resolution
MaxRawLen == 2   \* longest raw text of a numeric field or of a date
MaxRows == 3     \* most rows of the feed in aggregation
MaxWeeks == 3    \* most weeks of one site's history, and the widest trend window
MaxDay == 13     \* last day of the two weeks a sample is dated in

\* A missing cell (NaN in a pandas column).  read_csv turns an empty cell into
\* NaN, so a cell of the feed is never the empty text <<>>.
NA == <<"NA">>

\* pd.to_numeric / pd.to_datetime raising instead of returning a value.
RAISE == <<"raise">>

\* A number as an exact fraction (numerator, denominator), and a date (day
\* number, day 0 a Monday).
Num(n) == <<"num", n, 1>>
DateCell(n) == <<"date", n>>
DayOf(cell) == cell[2]

----------------------------------------------------------------------------
\* Text.

\* The characters of the model's texts, in code-point order.
Chars ==
    <<" ", "0", "1", "2", "3", "4", "5", "6", "7", "8", "9", ">", "@",
      "A", "B", "L", "P", "a", "b", "c", "d", "e", "i", "k", "l", "n", "o",
      "p", "u", "v", "x">>

Ord(c) == CHOOSE k \in 1..Len(Chars) : Chars[k] = c

Digits == {"0", "1", "2", "3", "4", "5", "6", "7", "8", "9"}

DigitVal(c) == Ord(c) - Ord("0")

\* str.lower(), one character.
LowerChar(c) ==
    CASE c = "A" -> "a"
      [] c = "B" -> "b"
      [] c = "L" -> "l"
      [] c = "P" -> "p"
      [] OTHER -> c

\* Series.str.lower(): NaN stays NaN.
Lower(text) ==
    IF text = NA THEN NA ELSE [k \in 1..Len(text) |-> LowerChar(text[k])]

\* Python's str < str.
RECURSIVE TextLess(_, _)
TextLess(a, b) ==
    IF b = <<>> THEN FALSE
    ELSE IF a = <<>> THEN TRUE
    ELSE IF Head(a) = Head(b) THEN TextLess(Tail(a), Tail(b))
    ELSE Ord(Head(a)) < Ord(Head(b))

\* The value of a text of digits.
RECURSIVE ValueOf(_)
ValueOf(text) ==
    IF text = <<>> THEN 0
    ELSE 10 * ValueOf(SubSeq(text, 1, Len(text) - 1)) + DigitVal(text[Len(text)])

IsNumericText(text) ==
    /\ text # NA
    /\ Len(text) >= 1
    /\ \A k \in 1..Len(text) : text[k] \in Digits

----------------------------------------------------------------------------
\* The hard-coded display names (a display name is kept whole, as a one-element
\* tuple: the pipeline never looks inside it).
peav_oldb == <<"p", "e", "a", "v", "@", "o", "l", "d", "b">>
peav_ndec == <<"p", "e", "a", "v", "@", "n", "d", "e", "c">>
peav_vick == <<"p", "e", "a", "v", "@", "v", "i", "c", "k">>
lull_lull == <<"l", "u", "l", "l", "@", "l", "u", "l", "l">>

color_map ==
    [c \in {peav_oldb, peav_ndec, peav_vick, lull_lull} |->
        CASE c = peav_oldb -> <<"Peavine creek/Old briarcliff way">>
          [] c = peav_ndec -> <<"Peavine creek/Oxford Rd NE">>
          [] c = peav_vick -> <<"Peavine creek/Chelsea Cir NE">>
          [] c = lull_lull -> <<"Lullwater creek/Lullwater Rd NE">>]

\* Series.map(color_map): a key the dict lacks maps to NaN.
MapColor(code) == IF code \in DOMAIN color_map THEN color_map[code] ELSE NA

----------------------------------------------------------------------------
\* Site token resolution: Series.str.extract(f"({pattern})") with
\* pattern = "|".join(codes).  The codes of the model hold no regular
\* expression metacharacter, so a code matches exactly its own text.

\* "|".join(codes) as its alternatives; the join of no code is the empty
\* pattern, which matches the empty text.
Pattern(codes) == IF codes = <<>> THEN << <<>> >> ELSE codes

\* The code matches the text at position p.
MatchesAt(code, text, p) ==
    /\ p + Len(code) - 1 <= Len(text)
    /\ SubSeq(text, p, p + Len(code) - 1) = code

\* The alternation matches at p: the first alternative that does, 0 if none.
FirstAltAt(codes, text, p) ==
    IF \E k \in 1..Len(codes) : MatchesAt(codes[k], text, p)
    THEN CHOOSE k \in 1..Len(codes) :
            /\ MatchesAt(codes[k], text, p)
            /\ \A j \in 1..(k - 1) : ~MatchesAt(codes[j], text, p)
    ELSE 0

\* A search that tries the codes one after the other, each anywhere in the
\* text.
ExtractCatalogOrder(codes, text) ==
    IF text = NA THEN NA
    ELSE LET alts == Pattern(codes)
             Found(k) == \E p \in 1..(Len(text) + 1) : MatchesAt(alts[k], text, p)
         IN  IF \A k \in 1..Len(alts) : ~Found(k) THEN NA
             ELSE alts[CHOOSE k \in 1..Len(alts) :
                          Found(k) /\ \A j \in 1..(k - 1) : ~Found(j)]

\* re.search: the leftmost position at which some alternative matches, and
\* there the first alternative in pattern order; NaN when nothing matches or
\* the cell is NaN.
Extract(codes, text) ==
    IF text = NA THEN NA
    ELSE LET alts == Pattern(codes)
             hits == {p \in 1..(Len(text) + 1) : FirstAltAt(alts, text, p) # 0}
         IN  IF hits = {} THEN NA
             ELSE LET p == CHOOSE q \in hits : \A r \in hits : q <= r
                  IN  alts[FirstAltAt(alts, text, p)]

----------------------------------------------------------------------------
\* Numeric cleaning.

\* Series.str.replace(r"[>]", "", regex=True): every ">" is removed.
RECURSIVE StripGt(_)
StripGt(text) ==
    IF text = NA THEN NA
    ELSE IF text = <<>> THEN <<>>
    ELSE IF Head(text) = ">" THEN StripGt(Tail(text))
    ELSE <<Head(text)>> \o StripGt(Tail(text))

\* pd.to_numeric of one cell: NaN and "" give NaN, digits give their value,
\* anything else raises, or gives NaN under errors="coerce".
ToNumeric(text, coerce) ==
    IF text = NA \/ text = <<>> THEN NA
    ELSE IF IsNumericText(text) THEN Num(ValueOf(text))
    ELSE IF coerce THEN NA
    ELSE RAISE

\* read_csv's type inference: a column all of whose cells are numbers or
\* empty is a float64 column; one text cell makes it an object column.
IsObjectColumn(rows, col) ==
    \/ Len(rows) = 0
    \/ \E k \in 1..Len(rows) : rows[k][col] # NA /\ ~IsNumericText(rows[k][col])

----------------------------------------------------------------------------
\* Dates.  A date is written as the digits of its day number; day 0 is a
\* Monday.

\* str.strip(): blanks are removed at both ends.
RECURSIVE Strip(_)
Strip(text) ==
    IF text = NA THEN NA
    ELSE IF text = <<>> THEN <<>>
    ELSE IF Head(text) = " " THEN Strip(Tail(text))
    ELSE IF text[Len(text)] = " " THEN Strip(SubSeq(text, 1, Len(text) - 1))
    ELSE text

\* pd.to_datetime of one cell (errors="raise"); NaN and "" give NaT.
ToDatetime(text) ==
    IF text = NA \/ text = <<>> THEN NA
    ELSE IF IsNumericText(text) THEN DateCell(ValueOf(text))
    ELSE RAISE

\* dt.to_period("W").start_time + 2 days: the Monday of the date's
\* Monday-to-Sunday week, plus WeekOffset days.
WeekOffset == 2

\* A week counted from Sunday to Saturday.
WeekDateSundayWeek(date) ==
    IF date = NA THEN NA
    ELSE DateCell(DayOf(date) - ((DayOf(date) + 1) % 7) + WeekOffset)

WeekDate(date) ==
    IF date = NA THEN NA
    ELSE DateCell(DayOf(date) - (DayOf(date) % 7) + WeekOffset)

----------------------------------------------------------------------------
\* Exact arithmetic for the means.

RECURSIVE GCD(_, _)
GCD(a, b) == IF b = 0 THEN a ELSE GCD(b, a % b)

Reduce(n, d) == LET g == GCD(n, d) IN IF g = 0 THEN Num(0) ELSE <<"num", n \div g, d \div g>>

FracAdd(a, b) == Reduce(a[2] * b[3] + b[2] * a[3], a[3] * b[3])

\* float arithmetic on cells: NaN in, NaN out; a comparison with NaN is False.
FracSub(a, b) ==
    IF a = NA \/ b = NA THEN NA ELSE Reduce(a[2] * b[3] - b[2] * a[3], a[3] * b[3])

FracLess(a, b) == a # NA /\ b # NA /\ a[2] * b[3] < b[2] * a[3]

\* a / b * 100 for b # 0.
FracPercent(a, b) ==
    IF a = NA \/ b = NA THEN NA
    ELSE IF b[2] < 0 THEN Reduce(0 - a[2] * b[3] * 100, 0 - a[3] * b[2])
    ELSE Reduce(a[2] * b[3] * 100, a[3] * b[2])

\* GroupBy.mean() of one column of one group (skipna): the values are added
\* in row order and the sum is divided by their count; NaN when every value
\* of the group is NaN.
RECURSIVE SumFrom(_, _, _)
SumFrom(rows, col, k) ==
    IF k > Len(rows) THEN <<Num(0), 0>>
    ELSE LET rest == SumFrom(rows, col, k + 1)
         IN  IF rows[k][col] = NA THEN rest
             ELSE <<FracAdd(rows[k][col], rest[1]), rest[2] + 1>>

\* The first value of the group that is not NaN, in row order (first() where
\* mean() is meant).
MeanFirst(rows, col) ==
    IF \A k \in 1..Len(rows) : rows[k][col] = NA THEN NA
    ELSE rows[CHOOSE k \in 1..Len(rows) :
                 rows[k][col] # NA /\ \A j \in 1..(k - 1) : rows[j][col] = NA][col]

\* A mean that counts a NaN as a zero.
MeanZeroFilled(rows, col) ==
    LET acc == SumFrom(rows, col, 1)
    IN  Reduce(acc[1][2], acc[1][3] * Len(rows))

Mean(rows, col) ==
    LET acc == SumFrom(rows, col, 1)
    IN  IF acc[2] = 0 THEN NA ELSE Reduce(acc[1][2], acc[1][3] * acc[2])

----------------------------------------------------------------------------
\* Tables: a DataFrame is the sequence of its rows, a row a record.

MapRows(rows, F(_)) == [k \in 1..Len(rows) |-> F(rows[k])]

\* The elements of a finite set as a sequence, in the order Less.
RECURSIVE SetToSeq(_)
SetToSeq(S) ==
    IF S = {} THEN <<>>
    ELSE LET m == CHOOSE x \in S : TRUE IN <<m>> \o SetToSeq(S \ {m})

SortedSeq(S, Less(_, _)) == SortSeq(SetToSeq(S), Less)

ValueCols == <<"tot_coli_conc", "ecoli_conc", "ph", "tubidity">>

----------------------------------------------------------------------------
\* The stages of the refresh pipeline, each a function of the tables.

\* read_csv and the column selection.  The text columns stay text; ph, which
\* no later stage converts, is a float64 column when read_csv finds it numeric
\* and an object column of texts otherwise.
ReadResults(csv) ==
    LET phObject == IsObjectColumn(csv, "ph")
        Typed(r) == [r EXCEPT !.ph = IF phObject THEN r.ph ELSE ToNumeric(r.ph, TRUE)]
    IN  MapRows(csv, Typed)

\* df["site"].str.lower() and site_loc["site"].str.lower().
LowerSite(rows) ==
    LET F(r) == [r EXCEPT !.site = Lower(r.site)] IN MapRows(rows, F)

\* The site codes of the catalog, in row order.
Codes(loc) == [k \in 1..Len(loc) |-> loc[k].site]

\* df["site"].str.extract(f"({pattern})", expand=False).
ExtractSite(rows, loc) ==
    LET F(r) == [r EXCEPT !.site = Extract(Codes(loc), r.site)] IN MapRows(rows, F)

\* A filter that keeps the rows whose token matched no code.
DropNullDateOnly(rows) ==
    LET Keep(r) == r.Date # NA IN SelectSeq(rows, Keep)

\* df[~df["site"].isnull()], then df[~df["Date"].isnull()].
DropNull(rows) ==
    LET Keep(r) == r.site # NA /\ r.Date # NA IN SelectSeq(rows, Keep)

\* Lines 84-88 on one row.
CleanRow(r) ==
    [r EXCEPT !.tot_coli_conc = ToNumeric(StripGt(r.tot_coli_conc), FALSE),
              !.ecoli_conc = ToNumeric(StripGt(r.ecoli_conc), FALSE),
              !.tubidity = ToNumeric(r.tubidity, TRUE)]

\* Lines 84-88 raise: .str on a float64 column (AttributeError), or
\* pd.to_numeric on a text that is no number (ValueError).
CleanRaises(rows, csv) ==
    \/ ~IsObjectColumn(csv, "tot_coli_conc")
    \/ ~IsObjectColumn(csv, "ecoli_conc")
    \/ \E k \in 1..Len(rows) :
          \/ CleanRow(rows[k]).tot_coli_conc = RAISE
          \/ CleanRow(rows[k]).ecoli_conc = RAISE

CleanNumeric(rows) == MapRows(rows, CleanRow)

\* Lines 92-98 on one row.
DateRow(r) ==
    LET d == ToDatetime(Strip(r.Date))
    IN  [Date |-> d, WeekDate |-> IF d = RAISE THEN NA ELSE WeekDate(d),
         site |-> r.site, tot_coli_conc |-> r.tot_coli_conc,
         ecoli_conc |-> r.ecoli_conc, ph |-> r.ph, tubidity |-> r.tubidity]

DateRaises(rows) == \E k \in 1..Len(rows) : DateRow(rows[k]).Date = RAISE

ConvertDate(rows) == MapRows(rows, DateRow)

\* df["site_full"] = df["site"].map(color_map).
MapSiteFull(rows) ==
    LET F(r) ==
            [Date |-> r.Date, WeekDate |-> r.WeekDate, site |-> r.site,
             site_full |-> MapColor(r.site), tot_coli_conc |-> r.tot_coli_conc,
             ecoli_conc |-> r.ecoli_conc, ph |-> r.ph, tubidity |-> r.tubidity]
    IN  MapRows(rows, F)

\* The rows groupby keeps: a NaN in a key column drops the row (dropna=True).
HasKeys(r) == r.WeekDate # NA /\ r.site # NA /\ r.site_full # NA

GroupKey(r) == <<r.WeekDate, r.site, r.site_full>>

\* The order of the group keys (sort=True): WeekDate, then site.
GroupKeyLess(a, b) ==
    \/ DayOf(a[1]) < DayOf(b[1])
    \/ DayOf(a[1]) = DayOf(b[1]) /\ TextLess(a[2], b[2])

\* df.drop(columns=["Date"]).groupby(["WeekDate", "site", "site_full"])
\*   .mean().reset_index(): one row per key, the mean of every value column.
GroupMean(rows) ==
    LET kept == SelectSeq(rows, HasKeys)
        keys == SortedSeq({GroupKey(kept[k]) : k \in 1..Len(kept)}, GroupKeyLess)
        Bucket(key) ==
            LET InGroup(r) == GroupKey(r) = key
                members == SelectSeq(kept, InGroup)
            IN  [WeekDate |-> key[1], site |-> key[2], site_full |-> key[3],
                 tot_coli_conc |-> Mean(members, "tot_coli_conc"),
                 ecoli_conc |-> Mean(members, "ecoli_conc"),
                 ph |-> Mean(members, "ph"),
                 tubidity |-> Mean(members, "tubidity")]
    IN  [k \in 1..Len(keys) |-> Bucket(keys[k])]

\* mean() of the object column ph raises TypeError (pandas 2: numeric_only is
\* False) as soon as there is a group to average.
GroupRaises(rows, csv) ==
    /\ IsObjectColumn(csv, "ph")
    /\ \E k \in 1..Len(rows) : HasKeys(rows[k])

\* sort_values(["site", "WeekDate"]).
SiteDateLess(a, b) ==
    \/ TextLess(a.site, b.site)
    \/ a.site = b.site /\ DayOf(a.WeekDate) < DayOf(b.WeekDate)

\* GroupBy.last() of one column: the last value of the group that is not NaN.
RECURSIVE LastValid(_, _, _)
LastValid(rows, col, k) ==
    IF k = 0 THEN NA
    ELSE IF rows[k][col] # NA THEN rows[k][col]
    ELSE LastValid(rows, col, k - 1)

\* df.sort_values(["site", "WeekDate"]).groupby("site", as_index=False).last()
Recent(rows) ==
    LET sorted == SortSeq(rows, SiteDateLess)
        sites == SortedSeq({rows[k].site : k \in 1..Len(rows)}, TextLess)
        Last(code) ==
            LET OfSite(r) == r.site = code
                members == SelectSeq(sorted, OfSite)
                n == Len(members)
            IN  [site |-> code,
                 WeekDate |-> LastValid(members, "WeekDate", n),
                 site_full |-> LastValid(members, "site_full", n),
                 tot_coli_conc |-> LastValid(members, "tot_coli_conc", n),
                 ecoli_conc |-> LastValid(members, "ecoli_conc", n),
                 ph |-> LastValid(members, "ph", n),
                 tubidity |-> LastValid(members, "tubidity", n)]
    IN  [k \in 1..Len(sites) |-> Last(sites[k])]

\* chatbot.py: site_data.sort_values('WeekDate').iloc[-1] of the rows of one
\* site, the whole row of the site's last week.
Latest(rows, code) ==
    LET OfSite(r) == r.site = code
        ByWeek(a, b) == DayOf(a.WeekDate) < DayOf(b.WeekDate)
        sorted == SortSeq(SelectSeq(rows, OfSite), ByWeek)
    IN  sorted[Len(sorted)]

\* pd.merge(site_loc, df_recent, on "site", how="left"): the catalog rows in
\* their order, each with the columns of its df_recent row, or with NaN.
RECURSIVE MergeLeft(_, _)
MergeLeft(loc, recent) ==
    IF loc = <<>> THEN <<>>
    ELSE LET code == Head(loc).site
             OfSite(r) == r.site = code
             hits == SelectSeq(recent, OfSite)
             blank == [site |-> code, WeekDate |-> NA, site_full |-> NA,
                       tot_coli_conc |-> NA, ecoli_conc |-> NA, ph |-> NA,
                       tubidity |-> NA]
         IN  (IF hits = <<>> THEN <<blank>> ELSE hits) \o MergeLeft(Tail(loc), recent)

\* The layout's dropdown: value=df["site_full"].unique()[1], the second
\* distinct display name in row order; indexing raises IndexError when df
\* holds fewer than two.
RECURSIVE Unique(_, _)
Unique(rows, seen) ==
    IF rows = <<>> THEN <<>>
    ELSE IF Head(rows).site_full \in seen THEN Unique(Tail(rows), seen)
    ELSE <<Head(rows).site_full>> \o Unique(Tail(rows), seen \cup {Head(rows).site_full})

LayoutRaises(rows) == Len(Unique(rows, {})) < 2

DropdownValue(rows) == Unique(rows, {})[2]

----------------------------------------------------------------------------
\* The module-level script, one action per stage.  A stage that raises ends
\* the import: nothing is served.

Unserved ==
    /\ address = <<>> /\ idx = 0 /\ responses = <<>> /\ npc = "idle"
    /\ best = [site |-> <<>>, meters |-> <<>>, time |-> <<>>]
    /\ ret = [kind |-> "none"]
    /\ sampling_sites = NA
    /\ distance_alert = [children |-> [text |-> ""], is_open |-> FALSE]
    /\ bar_dat = [col_chosen |-> "none", rows |-> <<>>]
    /\ tool = [name |-> "none"]

ReadCsv ==
    /\ pc = "read_csv"
    /\ df' = ReadResults(csv_results)
    /\ site_loc' = csv_site_loc
    /\ pc' = "lower"
    /\ UNCHANGED <<csv_results, csv_site_loc, df_recent, site>>
    /\ UNCHANGED nvars
    /\ UNCHANGED qvars

LowerStage ==
    /\ pc = "lower"
    /\ df' = LowerSite(df)
    /\ site_loc' = LowerSite(site_loc)
    /\ pc' = "extract"
    /\ UNCHANGED <<csv_results, csv_site_loc, df_recent, site>>
    /\ UNCHANGED nvars
    /\ UNCHANGED qvars

ExtractStage ==
    /\ pc = "extract"
    /\ df' = ExtractSite(df, site_loc)
    /\ pc' = "dropnull"
    /\ UNCHANGED <<csv_results, csv_site_loc, site_loc, df_recent, site>>
    /\ UNCHANGED nvars
    /\ UNCHANGED qvars

DropNullStage ==
    /\ pc = "dropnull"
    /\ df' = DropNull(df)
    /\ pc' = "clean"
    /\ UNCHANGED <<csv_results, csv_site_loc, site_loc, df_recent, site>>
    /\ UNCHANGED nvars
    /\ UNCHANGED qvars

CleanStage ==
    /\ pc = "clean"
    /\ IF CleanRaises(df, csv_results)
       THEN pc' = "raised_clean" /\ df' = df
       ELSE pc' = "date" /\ df' = CleanNumeric(df)
    /\ UNCHANGED <<csv_results, csv_site_loc, site_loc, df_recent, site>>
    /\ UNCHANGED nvars
    /\ UNCHANGED qvars

DateStage ==
    /\ pc = "date"
    /\ IF DateRaises(df)
       THEN pc' = "raised_date" /\ df' = df
       ELSE pc' = "site_full" /\ df' = ConvertDate(df)
    /\ UNCHANGED <<csv_results, csv_site_loc, site_loc, df_recent, site>>
    /\ UNCHANGED nvars
    /\ UNCHANGED qvars

SiteFullStage ==
    /\ pc = "site_full"
    /\ df' = MapSiteFull(df)
    /\ pc' = "groupby"
    /\ UNCHANGED <<csv_results, csv_site_loc, site_loc, df_recent, site>>
    /\ UNCHANGED nvars
    /\ UNCHANGED qvars

GroupStage ==
    /\ pc = "groupby"
    /\ IF GroupRaises(df, csv_results)
       THEN pc' = "raised_groupby" /\ df' = df
       ELSE pc' = "recent" /\ df' = GroupMean(df)
    /\ UNCHANGED <<csv_results, csv_site_loc, site_loc, df_recent, site>>
    /\ UNCHANGED nvars
    /\ UNCHANGED qvars

RecentStage ==
    /\ pc = "recent"
    /\ df_recent' = Recent(df)
    /\ pc' = "merge"
    /\ UNCHANGED <<csv_results, csv_site_loc, df, site_loc, site>>
    /\ UNCHANGED nvars
    /\ UNCHANGED qvars

MergeStage ==
    /\ pc = "merge"
    /\ site' = MergeLeft(site_loc, df_recent)
    /\ pc' = "layout"
    /\ UNCHANGED <<csv_results, csv_site_loc, df, site_loc, df_recent>>
    /\ UNCHANGED nvars
    /\ UNCHANGED qvars

LayoutStage ==
    /\ pc = "layout"
    /\ IF LayoutRaises(df)
       THEN pc' = "raised_layout" /\ sampling_sites' = sampling_sites
       ELSE pc' = "serve" /\ sampling_sites' = DropdownValue(df)
    /\ UNCHANGED pvars_tables
    /\ UNCHANGED <<address, idx, best, responses, npc, ret, distance_alert>>
    /\ UNCHANGED qvars

\* Lines 54-98 as one function of the two files: the cleaned samples, and
\* whether a stage raised on the way.
Cleaned(csv, cat) ==
    LET d3 == DropNull(ExtractSite(LowerSite(ReadResults(csv)), LowerSite(cat)))
        d4 == CleanNumeric(d3)
    IN  IF CleanRaises(d3, csv) \/ DateRaises(d4)
        THEN [raised |-> TRUE]
        ELSE [raised |-> FALSE, df |-> ConvertDate(d4)]

\* The whole script as one function of the two files: the tables it leaves,
\* and whether some stage raised.
Refresh(csv, cat) ==
    IF Cleaned(csv, cat).raised THEN [raised |-> TRUE]
    ELSE LET loc == LowerSite(cat)
             d6 == MapSiteFull(Cleaned(csv, cat).df)
             d7 == GroupMean(d6)
             rec == Recent(d7)
         IN  IF GroupRaises(d6, csv) \/ LayoutRaises(d7)
             THEN [raised |-> TRUE]
             ELSE [raised |-> FALSE, df |-> d7, site_loc |-> loc, df_recent |-> rec,
                   site |-> MergeLeft(loc, rec), sampling_sites |-> DropdownValue(d7)]

\* The script, stage by stage.
NextRefresh ==
    \/ ReadCsv
    \/ LowerStage
    \/ ExtractStage
    \/ DropNullStage
    \/ CleanStage
    \/ DateStage
    \/ SiteFullStage
    \/ GroupStage
    \/ RecentStage
    \/ MergeStage
    \/ LayoutStage

Raised == pc \in {"raised_clean", "raised_date", "raised_groupby", "raised_layout"}

----------------------------------------------------------------------------
\* The server.  app.run() is the last statement of the script: callbacks and
\* tools are answered only once every stage above has run.

\* A server that answers while the last stages still run.
ServingEarly == pc \in {"merge", "layout", "serve"}

Serving == pc = "serve"

----------------------------------------------------------------------------
\* pick_nearest_site.

\* Python's None, and float("inf") of best_meters.
None == <<>>
FloatInf == <<>>

\* dash.no_update as an output value.
no_update == <<"no_update">>

\* What gmaps.directions can do for one destination: raise (ApiError,
\* TransportError, Timeout), return [] (no route), or return one route whose
\* first leg reports a distance in meters and a duration in seconds.
Routes ==
    {<<[distance |-> d, duration |-> t]>> : d \in 0..MaxDist, t \in 1..MaxTime}

Responses ==
    {[raised |-> TRUE, directions |-> <<>>]}
        \cup {[raised |-> FALSE, directions |-> ds] : ds \in {<<>>} \cup Routes}

\* Form values of address_input: nothing typed (None or ""), or a text.
Addresses == {<<>>, <<"a">>}

\* A reversed comparison.
CloserReversed(dist_m, best_meters) ==
    best_meters = FloatInf \/ dist_m > best_meters[1]

\* A comparison that also accepts an equal distance.
CloserOrEqual(dist_m, best_meters) ==
    best_meters = FloatInf \/ dist_m <= best_meters[1]

\* dist_m < best_meters
Closer(dist_m, best_meters) ==
    best_meters = FloatInf \/ dist_m < best_meters[1]

\* An iteration that forgets the running best when a site has no route.
LoopBodyForgets(b, row, directions) ==
    IF directions = <<>> THEN [site |-> None, meters |-> FloatInf, time |-> None]
    ELSE IF Closer(directions[1].distance, b.meters)
         THEN [site |-> row.site_full, meters |-> <<directions[1].distance>>,
               time |-> <<directions[1].duration>>]
         ELSE b

\* An iteration that takes the closer site and its distance but keeps the
\* walking time it already had.
LoopBodyStaleTime(b, row, directions) ==
    IF directions = <<>> THEN b
    ELSE IF Closer(directions[1].distance, b.meters)
         THEN [site |-> row.site_full, meters |-> <<directions[1].distance>>,
               time |-> IF b.time = None THEN <<directions[1].duration>> ELSE b.time]
         ELSE b

\* Lines 537-546: one iteration of the loop, given what the request returned.
LoopBody(b, row, directions) ==
    IF directions = <<>> THEN b
    ELSE LET dist_m == directions[1].distance
             time_s == directions[1].duration
         IN  IF Closer(dist_m, b.meters)
             THEN [site |-> row.site_full, meters |-> <<dist_m>>, time |-> <<time_s>>]
             ELSE b

NoRouteText == "No walking route found. Try a different address or check your spelling."

\* A return that lacks the test for best_site is None.
ResultUnchecked(b) ==
    [kind |-> "return", value |-> b.site,
     children |-> [text |-> "Closest monitoring site", site |-> b.site,
                   meters |-> b.meters, seconds |-> b.time],
     is_open |-> TRUE]

\* Lines 548-568: what the callback returns after the loop.  The message
\* shows the distance as km with two decimals and the time as whole minutes.
Result(b) ==
    IF b.site = None
    THEN [kind |-> "return", value |-> no_update,
          children |-> [text |-> NoRouteText], is_open |-> TRUE]
    ELSE [kind |-> "return", value |-> b.site,
          children |-> [text |-> "Closest monitoring site", site |-> b.site,
                        meters |-> b.meters, seconds |-> b.time],
          is_open |-> TRUE]

\* An except clause that reports the failure as "no route".
ExceptReturnNoRoute ==
    [kind |-> "return", value |-> no_update, children |-> [text |-> NoRouteText],
     is_open |-> TRUE]

\* An except clause that clears the selection.
ExceptReturnClears ==
    [kind |-> "return", value |-> None, children |-> [text |-> "Error"],
     is_open |-> TRUE]

\* Lines 570-572: what the callback returns when the try block raised.
ExceptReturn ==
    [kind |-> "return", value |-> no_update, children |-> [text |-> "Error"],
     is_open |-> TRUE]

\* Dash writes the returned outputs; no_update leaves a property as it is.
Applied(old, value) == IF value = no_update THEN old ELSE value

\* The callback is invoked: lines 522-530.
PickNearestSite ==
    /\ Serving
    /\ npc \in {"idle", "done"}
    /\ \E a \in Addresses :
          /\ address' = a
          /\ IF a = <<>>
             THEN /\ ret' = [kind |-> "raise", exc |-> "PreventUpdate"]
                  /\ npc' = "done"
             ELSE /\ ret' = [kind |-> "none"]
                  /\ npc' = "loop"
    /\ idx' = 1
    /\ responses' = <<>>
    /\ best' = [site |-> None, meters |-> FloatInf, time |-> None]
    /\ UNCHANGED <<sampling_sites, distance_alert>>
    /\ UNCHANGED pvars
    /\ UNCHANGED qvars

\* One iteration: the request for site row idx, lines 532-546; a request that
\* raises leaves the loop for the except clause.
PickStep ==
    /\ npc = "loop"
    /\ idx <= Len(site)
    /\ \E resp \in Responses :
          /\ responses' = Append(responses, resp)
          /\ IF resp.raised
             THEN /\ ret' = ExceptReturn
                  /\ npc' = "done"
                  /\ sampling_sites' = Applied(sampling_sites, ExceptReturn.value)
                  /\ distance_alert' = [children |-> ExceptReturn.children,
                                        is_open |-> ExceptReturn.is_open]
                  /\ UNCHANGED <<idx, best>>
             ELSE /\ best' = LoopBody(best, site[idx], resp.directions)
                  /\ idx' = idx + 1
                  /\ UNCHANGED <<npc, ret, sampling_sites, distance_alert>>
    /\ UNCHANGED address
    /\ UNCHANGED pvars
    /\ UNCHANGED qvars

\* The loop is over: lines 548-568.
PickReturn ==
    /\ npc = "loop"
    /\ idx > Len(site)
    /\ ret' = Result(best)
    /\ npc' = "done"
    /\ sampling_sites' = Applied(sampling_sites, Result(best).value)
    /\ distance_alert' = [children |-> Result(best).children,
                          is_open |-> Result(best).is_open]
    /\ UNCHANGED <<address, idx, best, responses>>
    /\ UNCHANGED pvars
    /\ UNCHANGED qvars

----------------------------------------------------------------------------
\* chatbot.py, CreekDataTools.  The tools read self.df and self.site_loc, the
\* weekly buckets and the catalog they were constructed with.  A tool returns
\* a text; the model keeps the outcome and the numbers the text reports, not
\* their formatting.

NoSite == <<>>

\* Lines 33-41 (and 108-113): a display name, in any case, gives its code; a
\* code of color_map gives itself; anything else is not found.
SiteCode(site_name) ==
    LET n == Lower(site_name)
        named == {k \in DOMAIN color_map : Lower(color_map[k]) = n}
    IN  IF named # {} THEN CHOOSE k \in named : TRUE
        ELSE IF n \in DOMAIN color_map THEN n
        ELSE NoSite

\* self.df[self.df['site'] == site_code].sort_values('WeekDate')
SiteData(rows, code) ==
    LET OfSite(r) == r.site = code
        ByWeek(a, b) == DayOf(a.WeekDate) < DayOf(b.WeekDate)
    IN  SortSeq(SelectSeq(rows, OfSite), ByWeek)

\* DataFrame.head(n) for n >= 0 (head() where tail() is meant).
HeadRows(rows, n) ==
    IF n >= Len(rows) THEN rows ELSE SubSeq(rows, 1, n)

\* DataFrame.tail(n) for n >= 0.
TailRows(rows, n) ==
    IF n >= Len(rows) THEN rows ELSE SubSeq(rows, Len(rows) - n + 1, Len(rows))

get_site_info(rows, loc, site_name) ==
    LET code == SiteCode(site_name)
        OfSite(r) == r.site = code
    IN  IF code = NoSite THEN [kind |-> "not_found"]
        ELSE IF SiteData(rows, code) = <<>> THEN [kind |-> "no_data"]
        ELSE LET latest == Latest(rows, code)
             IN  [kind |-> "info", site |-> color_map[code],
                  located |-> SelectSeq(loc, OfSite) # <<>>,
                  date |-> latest.WeekDate, ecoli_conc |-> latest.ecoli_conc,
                  ph |-> latest.ph, tubidity |-> latest.tubidity]

\* The thresholds of the trend interpretation (lines 158-179), as cells.
TrendThreshold(measurement) ==
    CASE measurement = "ecoli_conc" -> Num(0)
      [] measurement = "ph" -> Reduce(1, 2)
      [] measurement = "tubidity" -> Num(5)
      [] OTHER -> NA

TrendNote(measurement, change) ==
    IF TrendThreshold(measurement) = NA THEN "none"
    ELSE IF FracLess(TrendThreshold(measurement), change) THEN "increasing"
    ELSE IF FracLess(change, FracSub(Num(0), TrendThreshold(measurement))) THEN "decreasing"
    ELSE "stable"

\* A trend over a single value (len(values) < 1 where < 2 is meant).
TooFewOffByOne(n) == n < 1

\* Line 131: len(values) < 2.
TooFew(n) == n < 2

get_trends(rows, site_name, measurement, weeks) ==
    LET code == SiteCode(site_name)
        recent_data == TailRows(SiteData(rows, code), weeks)
        n == Len(recent_data)
        first_value == recent_data[1][measurement]
        last_value == recent_data[n][measurement]
        change == FracSub(last_value, first_value)
    IN  IF code = NoSite THEN [kind |-> "not_found"]
        ELSE IF SiteData(rows, code) = <<>> THEN [kind |-> "no_data"]
        ELSE IF recent_data = <<>> THEN [kind |-> "no_recent_data"]
        ELSE IF TooFew(n) THEN [kind |-> "insufficient_data"]
        ELSE [kind |-> "trend", site |-> color_map[code],
              period_from |-> recent_data[1].WeekDate,
              period_to |-> recent_data[n].WeekDate, weeks |-> n,
              first_value |-> first_value, last_value |-> last_value,
              change |-> change,
              change_percent |-> IF first_value # Num(0)
                                 THEN FracPercent(change, first_value) ELSE Num(0),
              note |-> TrendNote(measurement, change)]

\* list.sort(key=lambda x: x['value'], reverse=True) as CPython runs it on a
\* short list: the list is reversed, its leading run is found (and reversed
\* when strictly descending), the rest is inserted by binary search, and the
\* list is reversed again.  The only comparison is < on the values.
ValueLess(a, b) == FracLess(a.value, b.value)

Reverse(l) == [k \in 1..Len(l) |-> l[Len(l) + 1 - k]]

RECURSIVE RunLength(_, _, _)
RunLength(l, k, descending) ==
    IF k < Len(l) /\ (ValueLess(l[k + 1], l[k]) <=> descending)
    THEN RunLength(l, k + 1, descending)
    ELSE k

RECURSIVE InsertPoint(_, _, _, _)
InsertPoint(l, pivot, lo, hi) ==
    IF lo >= hi THEN lo
    ELSE LET p == lo + ((hi - lo) \div 2)
         IN  IF ValueLess(pivot, l[p + 1]) THEN InsertPoint(l, pivot, lo, p)
             ELSE InsertPoint(l, pivot, p + 1, hi)

RECURSIVE BinarySort(_, _)
BinarySort(l, start) ==
    IF start > Len(l) THEN l
    ELSE LET at == InsertPoint(l, l[start], 0, start - 1)
             moved == SubSeq(l, 1, at) \o <<l[start]>> \o SubSeq(l, at + 1, start - 1)
                      \o SubSeq(l, start + 1, Len(l))
         IN  BinarySort(moved, start + 1)

SortReverse(l) ==
    IF Len(l) < 2 THEN l
    ELSE LET r == Reverse(l)
             descending == ValueLess(r[2], r[1])
             run == RunLength(r, 2, descending)
             ordered == IF descending
                        THEN Reverse(SubSeq(r, 1, run)) \o SubSeq(r, run + 1, Len(r))
                        ELSE r
         IN  Reverse(BinarySort(ordered, run + 1))

\* color_map.keys(), in the order the dict is written.
color_map_keys == <<peav_oldb, peav_ndec, peav_vick, lull_lull>>

EpaStandard == 1000

compare_sites(rows, measurement) ==
    LET HasData(code) == SiteData(rows, code) # <<>>
        Entry(code) == [site |-> color_map[code],
                        value |-> Latest(rows, code)[measurement],
                        date |-> Latest(rows, code).WeekDate]
        site_comparisons == MapRows(SelectSeq(color_map_keys, HasData), Entry)
        ranked == SortReverse(site_comparisons)
        Above(c) == c.value # NA /\ ~FracLess(c.value, Num(EpaStandard))
    IN  IF site_comparisons = <<>> THEN [kind |-> "no_data"]
        ELSE [kind |-> "comparison", ranking |-> ranked,
              above_standard |-> IF measurement = "ecoli_conc"
                                 THEN SelectSeq(ranked, Above) ELSE <<>>]

\* The tools' arguments.
Measurements == {"ecoli_conc", "ph", "tubidity"}

\* A catalog site color_map does not name.
peav_x == <<"p", "e", "a", "v", "@", "x">>

ToolNames ==
    {peav_oldb, peav_ndec, lull_lull, peav_x,
     <<"P", "e", "a", "v", "@", "o", "l", "d", "b">>,
     color_map[peav_oldb], <<"Proctor creek">>}

\* A tool call with its arguments drawn from the given sets.
GetSiteInfoOf(names) ==
    /\ Serving
    /\ \E site_name \in names :
          tool' = [name |-> "get_site_info", site_name |-> site_name,
                   ret |-> get_site_info(df, site_loc, site_name)]
    /\ UNCHANGED <<pvars, nvars, bar_dat>>

GetTrendsOf(names, measurements, windows) ==
    /\ Serving
    /\ \E site_name \in names, measurement \in measurements, weeks \in windows :
          tool' = [name |-> "get_trends", site_name |-> site_name,
                   measurement |-> measurement, weeks |-> weeks,
                   ret |-> get_trends(df, site_name, measurement, weeks)]
    /\ UNCHANGED <<pvars, nvars, bar_dat>>

CompareSitesOf(measurements) ==
    /\ Serving
    /\ \E measurement \in measurements :
          tool' = [name |-> "compare_sites", measurement |-> measurement,
                   ret |-> compare_sites(df, measurement)]
    /\ UNCHANGED <<pvars, nvars, bar_dat>>

GetSiteInfo == GetSiteInfoOf(ToolNames)

GetTrends == GetTrendsOf(ToolNames, Measurements, 0..MaxWeeks)

CompareSites == CompareSitesOf(Measurements)

\* update_graph: the bar chart's rows, bar_dat = df[df["site_full"] == site_chosen].
UpdateGraphOf(cols) ==
    /\ Serving
    /\ \E col_chosen \in cols :
          LET Chosen(r) == r.site_full = sampling_sites
          IN  bar_dat' = [col_chosen |-> col_chosen, rows |-> SelectSeq(df, Chosen)]
    /\ UNCHANGED <<pvars, nvars, tool>>

UpdateGraph == UpdateGraphOf(Measurements)

----------------------------------------------------------------------------
\* Inputs.

\* One row of data/Updated results.csv.
FeedRow(date, token, tot, ecoli, ph, tub) ==
    [Date |-> date, site |-> token, tot_coli_conc |-> tot, ecoli_conc |-> ecoli,
     ph |-> ph, tubidity |-> tub]

\* One row of data/Site_loc.csv (lat and lon only place the request).
LocRow(code) == [site |-> code]

\* All sequences over S of length lo..hi.
SeqsOf(S, lo, hi) == UNION {[1..n -> S] : n \in lo..hi}

IsInjective(f) == \A a, b \in DOMAIN f : f[a] = f[b] => a = b

\* The script has not started.
Unloaded ==
    /\ df = <<>> /\ site_loc = <<>> /\ df_recent = <<>> /\ site = <<>>
    /\ pc = "read_csv"

----------------------------------------------------------------------------
\* SpecNearest: the served application answering pick_nearest_site, for
\* catalogs of two or three of the mapped sites in any order and feeds with
\* data for two or for all three of them.

NearestCodes == {peav_oldb, lull_lull, peav_ndec}

NearestCatalogs ==
    {MapRows(c, LocRow) : c \in {f \in SeqsOf(NearestCodes, 2, 3) : IsInjective(f)}}

SampleRow(token, day) ==
    FeedRow(day, token, <<">", "2">>, <<">", "1">>, <<"7">>, <<"3">>)

NearestFeeds ==
    { <<SampleRow(peav_oldb, <<"1">>), SampleRow(lull_lull, <<"8">>)>>,
      <<SampleRow(peav_oldb, <<"1">>), SampleRow(lull_lull, <<"8">>),
        SampleRow(peav_ndec, <<"8">>)>> }

InitNearest ==
    /\ csv_results \in NearestFeeds
    /\ csv_site_loc \in NearestCatalogs
    /\ ~Refresh(csv_results, csv_site_loc).raised
    /\ df = Refresh(csv_results, csv_site_loc).df
    /\ site_loc = Refresh(csv_results, csv_site_loc).site_loc
    /\ df_recent = Refresh(csv_results, csv_site_loc).df_recent
    /\ site = Refresh(csv_results, csv_site_loc).site
    /\ sampling_sites = Refresh(csv_results, csv_site_loc).sampling_sites
    /\ pc = "serve"
    /\ address = <<>> /\ idx = 0 /\ responses = <<>> /\ npc = "idle"
    /\ best = [site |-> None, meters |-> FloatInf, time |-> None]
    /\ ret = [kind |-> "none"]
    /\ distance_alert = [children |-> [text |-> ""], is_open |-> FALSE]
    /\ bar_dat = [col_chosen |-> "none", rows |-> <<>>]
    /\ tool = [name |-> "none"]

NextNearest == PickNearestSite \/ PickStep \/ PickReturn

SpecNearest == InitNearest /\ [][NextNearest]_vars

----------------------------------------------------------------------------
\* Properties of pick_nearest_site (SpecNearest).

\* A call with an address has ended.
Resolved == npc = "done" /\ address # <<>>

AnyRaised == \E k \in 1..Len(responses) : responses[k].raised

\* The sites whose request returned a route, by row of the site table.
RouteIdx ==
    {k \in 1..Len(responses) : ~responses[k].raised /\ responses[k].directions # <<>>}

Dist(k) == responses[k].directions[1].distance
Time(k) == responses[k].directions[1].duration

IsMinimal(k) == \A j \in RouteIdx : Dist(k) <= Dist(j)

\* The callback returned row k as the closest site, with row k's own route.
ReturnedRow(k) ==
    /\ ret.kind = "return"
    /\ ret.value = site[k].site_full
    /\ ret.children.text = "Closest monitoring site"
    /\ ret.children.site = site[k].site_full
    /\ ret.children.meters = <<Dist(k)>>
    /\ ret.children.seconds = <<Time(k)>>
    /\ ret.is_open

ReturnedNotFound ==
    /\ ret.kind = "return"
    /\ ret.value = no_update
    /\ ret.children.text = NoRouteText
    /\ ret.is_open

ReturnedError ==
    /\ ret.kind = "return"
    /\ ret.value = no_update
    /\ ret.children.text = "Error"
    /\ ret.is_open

\* C1: when no request raised and at least one site returned a route, the
\* callback returns a site whose distance is at most that of every site that
\* returned a route, with the distance and duration of that site's route.
C1_ReturnsMinimum ==
    (Resolved /\ ~AnyRaised /\ RouteIdx # {}) =>
        \E k \in RouteIdx : IsMinimal(k) /\ ReturnedRow(k)

\* The nearest site is the second of three (distances like 500, 300, 700).
C1_Witness ==
    /\ Resolved /\ Len(responses) = 3 /\ RouteIdx = {1, 2, 3}
    /\ Dist(2) < Dist(1) /\ Dist(1) < Dist(3)
    /\ ReturnedRow(2)

\* C2: when several sites return the same minimum distance, the one that
\* comes first in the site table is returned.
C2_FirstSeenWinsTies ==
    (Resolved /\ ~AnyRaised) =>
        \A k, j \in RouteIdx :
            (IsMinimal(k) /\ IsMinimal(j) /\ k < j /\ \A h \in RouteIdx : IsMinimal(h) => k <= h)
                => (ReturnedRow(k) /\ (site[j].site_full # site[k].site_full => ~ReturnedRow(j)))

\* The first and the third site tie at the minimum, with different durations.
C2_Witness ==
    /\ Resolved /\ Len(responses) = 3 /\ RouteIdx = {1, 2, 3}
    /\ Dist(1) = Dist(3) /\ Dist(1) < Dist(2) /\ Time(1) # Time(3)
    /\ site[1].site_full # site[3].site_full
    /\ ReturnedRow(1)

C5_FailuresDistinct ==
    /\ (npc = "done" /\ address = <<>>) => ret = [kind |-> "raise", exc |-> "PreventUpdate"]
    /\ (Resolved /\ AnyRaised) => (ReturnedError /\ ~ReturnedNotFound)
    /\ (Resolved /\ ReturnedError) => responses[Len(responses)].raised
    /\ (Resolved /\ ReturnedNotFound) => ~AnyRaised

\* A site without a route, then a request that raises.
C5_Witness ==
    /\ Resolved /\ Len(responses) = 2
    /\ ~responses[1].raised /\ responses[1].directions = <<>>
    /\ responses[2].raised
    /\ ReturnedError

----------------------------------------------------------------------------
\* SpecToken: the script run on a feed of one row, for every raw site token
\* and every catalog within the bounds.  The catalog file spells its codes in
\* either case; the codes hold no regular-expression metacharacter.

TokenAlphabet == {"a", "b", "A"}
CodeAlphabet == {"a", "B"}

TokenTexts == SeqsOf(TokenAlphabet, 1, MaxTokenLen) \cup {NA}

TokenCatalogs ==
    {MapRows(c, LocRow) : c \in SeqsOf(SeqsOf(CodeAlphabet, 1, MaxCodeLen), 1, MaxCatalog)}

\* Tokens for a catalog of two mapped sites: a code, a code inside a longer
\* text in upper case, and a text that holds no code.  The feed's second row
\* is a sample of the other site.
MappedTokens ==
    {peav_oldb, <<"X">> \o peav_oldb \o <<" ", "B">>, <<"z">>}

MappedCatalog == <<LocRow(peav_oldb), LocRow(lull_lull)>>

InitToken ==
    /\ \/ /\ csv_results \in {<<SampleRow(t, <<"1">>)>> : t \in TokenTexts}
          /\ csv_site_loc \in TokenCatalogs
       \/ /\ csv_results \in {<<SampleRow(t, <<"1">>), SampleRow(lull_lull, <<"1">>)>> :
                                 t \in MappedTokens}
          /\ csv_site_loc = MappedCatalog
    /\ Unloaded
    /\ Unserved

SpecToken == InitToken /\ [][NextRefresh]_vars

\* The raw token of the feed's row, and the lower-cased codes of the catalog.
RawToken == csv_results[1].site
CatalogCodes == Codes(LowerSite(csv_site_loc))

IsPrefix(c, t) == Len(c) <= Len(t) /\ SubSeq(t, 1, Len(c)) = c

IsSubstring(c, t) ==
    \E i \in 1..Len(t) : \E j \in i..Len(t) : SubSeq(t, i, j) = c

HoldsNoCode(t) ==
    t = NA \/ \A k \in 1..Len(CatalogCodes) : ~IsSubstring(CatalogCodes[k], t)

\* C6 as stated: a token whose lower case is a catalog code resolves to that
\* code, whatever else the catalog holds; a token holding no catalog code is
\* dropped.
C6_Original ==
    /\ pc = "dropnull" =>
          \A k \in 1..Len(CatalogCodes) :
              Lower(RawToken) = CatalogCodes[k] => df[1].site = CatalogCodes[k]
    /\ pc = "clean" => (HoldsNoCode(Lower(RawToken)) => df = <<>>)

----------------------------------------------------------------------------
\* SpecClean: the script run on a feed of three rows for two mapped sites;
\* one numeric field of the middle row holds any raw text within the bounds,
\* or is empty.

RawAlphabet == {">", "2", "x"}

RawCells == SeqsOf(RawAlphabet, 1, MaxRawLen) \cup {NA}

ValueColSet == {ValueCols[k] : k \in 1..Len(ValueCols)}

CleanRows ==
    {[SampleRow(peav_oldb, <<"8">>) EXCEPT ![col] = v] : col \in ValueColSet, v \in RawCells}

TwoSites == <<LocRow(peav_oldb), LocRow(lull_lull)>>

InitClean ==
    /\ csv_results \in {<<SampleRow(peav_oldb, <<"1">>), r, SampleRow(lull_lull, <<"1">>)>> :
                          r \in CleanRows}
    /\ csv_site_loc = TwoSites
    /\ Unloaded
    /\ Unserved

SpecClean == InitClean /\ [][NextRefresh]_vars

\* What C7 says a raw field cleans to: the number after a leading ">", the
\* number itself, and null for an empty or any other text.
CleanedValue(v) ==
    IF v = NA THEN NA
    ELSE IF Head(v) = ">" /\ IsNumericText(Tail(v)) THEN Num(ValueOf(Tail(v)))
    ELSE IF IsNumericText(v) THEN Num(ValueOf(v))
    ELSE NA

\* C7 as stated: cleaning never raises, at the cleaning stage or where the
\* cleaned fields are averaged, and once the fields are cleaned every field of
\* every row holds the number after the marker, or null for an empty or
\* garbage text.
C7_Original ==
    /\ pc \notin {"raised_clean", "raised_groupby"}
    /\ pc = "date" =>
          \A k \in 1..Len(df) : \A col \in ValueColSet :
              df[k][col] = CleanedValue(csv_results[k][col])

----------------------------------------------------------------------------
\* SpecDates: the script run on a feed of three rows for two mapped sites;
\* the date of the middle row holds any text within the bounds that is not
\* blank, or is empty.

DateAlphabet == {" ", "2", "x"}

DateTexts ==
    {t \in SeqsOf(DateAlphabet, 1, MaxRawLen) : Strip(t) # <<>>} \cup {NA}

InitDates ==
    /\ csv_results \in
          {<<SampleRow(peav_oldb, <<"1">>), SampleRow(tok, d), SampleRow(lull_lull, <<"1">>)>> :
              tok \in {peav_oldb, lull_lull}, d \in DateTexts}
    /\ csv_site_loc = TwoSites
    /\ Unloaded
    /\ Unserved

SpecDates == InitDates /\ [][NextRefresh]_vars

Parsable(t) == t # NA /\ IsNumericText(Strip(t))

\* C8 as stated: no stage of the script raises, and after the dates are
\* converted the data set holds exactly the rows whose date could be parsed.
C8_Original ==
    /\ ~Raised
    /\ pc = "site_full" =>
          Len(df) = Cardinality({k \in 1..Len(csv_results) : Parsable(csv_results[k].Date)})

----------------------------------------------------------------------------
\* SpecAgg: the script run on every feed of up to MaxRows rows for two mapped
\* sites.  The samples of the first site are dated in two weeks (days 1 and 6
\* share a week, day 8 is in the next) and have a turbidity that is a number
\* or a text to_numeric coerces to NaN; the second site has one kind of
\* sample in either week.

AggRows ==
    {FeedRow(d, peav_oldb, <<">", "2">>, <<">", "1">>, <<"7">>, tub) :
        d \in {<<"1">>, <<"6">>, <<"8">>}, tub \in {<<"1">>, <<"3">>, <<"x">>}}
    \cup {SampleRow(lull_lull, d) : d \in {<<"1">>, <<"8">>}}

InitAgg ==
    /\ csv_results \in SeqsOf(AggRows, 1, MaxRows)
    /\ csv_site_loc = TwoSites
    /\ Unloaded
    /\ Unserved

SpecAgg == InitAgg /\ [][NextRefresh]_vars

RowSet(rows) == {rows[k] : k \in 1..Len(rows)}

\* The feed with its rows in the order perm.
Shuffled(perm) == [k \in 1..Len(csv_results) |-> csv_results[perm[k]]]

\* The weekly buckets the script computes from a feed.
BucketsOf(csv) == GroupMean(MapSiteFull(Cleaned(csv, csv_site_loc).df))

\* C9: whatever the order of the feed's rows, the script computes the same
\* set of weekly buckets (keys and per-field means) and the same latest
\* reading per site.
C9_OrderIndependent ==
    pc = "merge" =>
        \A perm \in Permutations(1..Len(csv_results)) :
            LET buckets == BucketsOf(Shuffled(perm))
            IN  /\ ~Cleaned(Shuffled(perm), csv_site_loc).raised
                /\ RowSet(buckets) = RowSet(df)
                /\ RowSet(Recent(buckets)) = RowSet(df_recent)

\* Three different samples of one site, the newest first in the feed; the two
\* of the first week have turbidity 1 and 3 and their bucket the mean 2.
C9_Witness ==
    /\ pc = "merge"
    /\ Len(csv_results) = 3 /\ Len(df) = 2
    /\ csv_results[1].Date = <<"8">>
    /\ {csv_results[2].tubidity, csv_results[3].tubidity} = {<<"1">>, <<"3">>}
    /\ df[1].tubidity = Num(2)
    /\ df_recent[1].WeekDate = df[2].WeekDate

\* C10 as stated: the latest reading of a site, in df_recent and as the
\* chatbot tools read it, is the site's bucket of the greatest week, every
\* field of it, null fields included.
C10_Original ==
    pc = "merge" =>
        \A k \in 1..Len(df_recent) :
            \E j \in 1..Len(df) :
                /\ df[j].site = df_recent[k].site
                /\ \A i \in 1..Len(df) :
                      df[i].site = df[j].site => DayOf(df[i].WeekDate) <= DayOf(df[j].WeekDate)
                /\ Latest(df, df[j].site) = df[j]
                /\ df_recent[k] = df[j]

----------------------------------------------------------------------------
\* SpecQuery and SpecCompare: the served application answering the chatbot
\* tools.  The catalog lists four sites, one of them outside color_map.
\* peav@oldb has one to MaxWeeks weekly samples, lull@lull one, the two others
\* none; a turbidity is a number or a text to_numeric coerces to NaN.  Under
\* SpecCompare the catalog lists the four sites of color_map, lull@lull's
\* turbidity varies too and peav@vick has one sample or none.

\* The text of a day number below 100.
DayText(n) ==
    IF n < 10 THEN <<Chars[Ord("0") + n]>>
    ELSE <<Chars[Ord("0") + (n \div 10)], Chars[Ord("0") + (n % 10)]>>

QueryCatalog == <<LocRow(peav_oldb), LocRow(peav_ndec), LocRow(peav_x), LocRow(lull_lull)>>

TubRow(token, day, tub) ==
    FeedRow(DayText(day), token, <<">", "2">>, <<">", "1">>, <<"7">>, tub)

QueryTubs == {<<"1">>, <<"2">>, <<"x">>}

\* One sample of peav@oldb per week, in weeks 1..n.
OldbHistories ==
    {[w \in 1..n |-> TubRow(peav_oldb, 7 * (w - 1) + 1, t[w])] :
        n \in 1..MaxWeeks, t \in [1..MaxWeeks -> QueryTubs]}

QueryFeeds == {h \o <<TubRow(lull_lull, 1, <<"2">>)>> : h \in OldbHistories}

CompareFeeds ==
    {h \o <<TubRow(lull_lull, 1, t)>> \o v :
        h \in OldbHistories,
        t \in {<<"2">>, <<"x">>},
        v \in {<<>>, <<TubRow(peav_vick, 8, <<"x">>)>>}}

Served(feeds, catalogs) ==
    /\ csv_results \in feeds
    /\ csv_site_loc \in catalogs
    /\ ~Refresh(csv_results, csv_site_loc).raised
    /\ df = Refresh(csv_results, csv_site_loc).df
    /\ site_loc = Refresh(csv_results, csv_site_loc).site_loc
    /\ df_recent = Refresh(csv_results, csv_site_loc).df_recent
    /\ site = Refresh(csv_results, csv_site_loc).site
    /\ sampling_sites = Refresh(csv_results, csv_site_loc).sampling_sites
    /\ pc = "serve"
    /\ address = <<>> /\ idx = 0 /\ responses = <<>> /\ npc = "idle"
    /\ best = [site |-> None, meters |-> FloatInf, time |-> None]
    /\ ret = [kind |-> "none"]
    /\ distance_alert = [children |-> [text |-> ""], is_open |-> FALSE]
    /\ bar_dat = [col_chosen |-> "none", rows |-> <<>>]
    /\ tool = [name |-> "none"]

InitQuery == Served(QueryFeeds, {QueryCatalog})

NextQuery == GetSiteInfo \/ GetTrends

SpecQuery == InitQuery /\ [][NextQuery]_vars

CompareCatalog ==
    <<LocRow(peav_oldb), LocRow(peav_ndec), LocRow(peav_vick), LocRow(lull_lull)>>

InitCompare == Served(CompareFeeds, {CompareCatalog})

SpecCompare == InitCompare /\ [][CompareSites]_vars

\* The catalog site has no weekly bucket.
ZeroSamples(code) == \A k \in 1..Len(df) : df[k].site # code

NullLatest(r) ==
    /\ r.WeekDate = NA /\ r.tot_coli_conc = NA /\ r.ecoli_conc = NA
    /\ r.ph = NA /\ r.tubidity = NA

\* C11 as stated: every catalog site has a row in the summary set (site), with
\* a null latest reading when the site has no sample, and get_site_info asked
\* for a catalog site without samples answers "no data", neither "not found"
\* nor an exception.
C11_Original ==
    /\ \A c \in 1..Len(site_loc) :
          \E k \in 1..Len(site) :
              /\ site[k].site = site_loc[c].site
              /\ ZeroSamples(site_loc[c].site) => NullLatest(site[k])
    /\ \A c \in 1..Len(site_loc) :
          (/\ tool.name = "get_site_info"
           /\ Lower(tool.site_name) = site_loc[c].site
           /\ ZeroSamples(site_loc[c].site))
          => tool.ret.kind = "no_data"

\* The weekly buckets of the site the last tool call named, and the position
\* of a bucket among them counted from the newest (1 is the latest week).
AskedBuckets == {r \in RowSet(df) : r.site = SiteCode(tool.site_name)}

Recency(r) ==
    Cardinality({q \in AskedBuckets : DayOf(q.WeekDate) >= DayOf(r.WeekDate)})

Smaller(a, b) == IF a < b THEN a ELSE b

\* c is l - f, null when l or f is.
IsDifference(c, l, f) ==
    IF l = NA \/ f = NA THEN c = NA
    ELSE c # NA /\ c[2] * l[3] * f[3] = (l[2] * f[3] - f[2] * l[3]) * c[3]

\* The report is the trend over the m most recent buckets of the site.
TrendOver(m) ==
    /\ tool.ret.kind = "trend"
    /\ tool.ret.weeks = m
    /\ \E first, last \in AskedBuckets :
          /\ Recency(first) = m /\ Recency(last) = 1
          /\ tool.ret.period_from = first.WeekDate
          /\ tool.ret.period_to = last.WeekDate
          /\ DayOf(first.WeekDate) < DayOf(last.WeekDate)
          /\ tool.ret.first_value = first[tool.measurement]
          /\ tool.ret.last_value = last[tool.measurement]
          /\ IsDifference(tool.ret.change, last[tool.measurement], first[tool.measurement])

TrendAsked == tool.name = "get_trends" /\ SiteCode(tool.site_name) # NoSite

\* C12 as stated, for the windows of at least one bucket: for a known site
\* with at least two buckets get_trends reports the trend over the most recent
\* window-many buckets (all of them when there are fewer), oldest first, with
\* the change last - first.
C12_Original ==
    (TrendAsked /\ Cardinality(AskedBuckets) >= 2 /\ tool.weeks >= 1)
    => TrendOver(Smaller(tool.weeks, Cardinality(AskedBuckets)))

\* C12 amended: the same for every window of at least 2; a window of 1 gives
\* the insufficient-data outcome and a window of 0 the no-recent-data outcome.
C12_TrendOverWindow ==
    (TrendAsked /\ Cardinality(AskedBuckets) >= 2)
    => CASE tool.weeks >= 2 -> TrendOver(Smaller(tool.weeks, Cardinality(AskedBuckets)))
         [] tool.weeks = 1 -> tool.ret.kind = "insufficient_data"
         [] tool.weeks = 0 -> tool.ret.kind = "no_recent_data"

\* A window of 2 on a site with three buckets whose last two values differ.
C12_Witness ==
    /\ TrendAsked /\ Cardinality(AskedBuckets) = 3 /\ tool.weeks = 2
    /\ tool.ret.kind = "trend"
    /\ tool.ret.change # NA /\ tool.ret.change # Num(0)

\* C13 as stated, for the windows of at least one bucket: for a known site
\* with fewer than two buckets (none or one) get_trends answers with the
\* insufficient-data outcome.
C13_Original ==
    (TrendAsked /\ Cardinality(AskedBuckets) < 2 /\ tool.weeks >= 1)
    => tool.ret.kind = "insufficient_data"

\* C13 amended: for a known site with fewer than two buckets get_trends never
\* reports a trend: with no bucket it answers "no data", with one bucket and a
\* window of 0 "no recent data", with one bucket and a window of at least 1
\* "insufficient data".
C13_NoTrendBelowTwo ==
    (TrendAsked /\ Cardinality(AskedBuckets) < 2)
    => /\ tool.ret.kind # "trend"
       /\ tool.ret.kind =
             CASE Cardinality(AskedBuckets) = 0 -> "no_data"
               [] tool.weeks = 0 -> "no_recent_data"
               [] OTHER -> "insufficient_data"

\* A site with exactly one bucket asked with a window wider than its history.
C13_Witness ==
    /\ TrendAsked /\ Cardinality(AskedBuckets) = 1 /\ tool.weeks = MaxWeeks
    /\ tool.ret.kind = "insufficient_data"

\* The bucket of the greatest week among the buckets of the site with this
\* display name.
IsLatestOf(r, name) ==
    /\ r \in RowSet(df) /\ r.site_full = name
    /\ \A q \in RowSet(df) : q.site_full = name => DayOf(q.WeekDate) <= DayOf(r.WeekDate)

Compared == tool.name = "compare_sites" /\ tool.ret.kind = "comparison"

\* a >= b on two values that are not null.
AtLeast(a, b) == a[2] * b[3] >= b[2] * a[3]

\* Every two ranked values that are not null are in descending order.
RankedDescending ==
    \A i, j \in 1..Len(tool.ret.ranking) :
        (/\ i < j
         /\ tool.ret.ranking[i].value # NA
         /\ tool.ret.ranking[j].value # NA)
        => AtLeast(tool.ret.ranking[i].value, tool.ret.ranking[j].value)

\* Every site of color_map with a bucket is ranked once, with the value and
\* the week of its latest bucket.
RankedByLatest ==
    /\ \A i \in 1..Len(tool.ret.ranking) :
          \E r \in RowSet(df) :
              /\ IsLatestOf(r, tool.ret.ranking[i].site)
              /\ tool.ret.ranking[i].value = r[tool.measurement]
              /\ tool.ret.ranking[i].date = r.WeekDate
    /\ \A r \in RowSet(df) :
          Cardinality({i \in 1..Len(tool.ret.ranking) :
                          tool.ret.ranking[i].site = r.site_full}) = 1

\* C14 as stated: compare_sites ranks every site by the value of its latest
\* bucket only, and the ranking is in descending order of that value.
C14_Original == Compared => (RankedByLatest /\ RankedDescending)

\* C15 as stated: no site whose latest value is null is in the ranking, and
\* the ranking is in descending order also when some latest values are null.
C15_Original ==
    Compared =>
        /\ \A i \in 1..Len(tool.ret.ranking) : tool.ret.ranking[i].value # NA
        /\ RankedDescending

----------------------------------------------------------------------------
\* SpecServe: the script from its first statement, then the server with
\* every reader: update_graph, pick_nearest_site and the three tools.  One
\* feed loads, the other holds a date pandas cannot parse.

ServeCatalog == <<LocRow(peav_oldb), LocRow(lull_lull)>>

ServeFeeds ==
    { <<TubRow(peav_oldb, 1, <<"1">>), TubRow(peav_oldb, 8, <<"x">>),
        TubRow(lull_lull, 1, <<"2">>)>>,
      <<TubRow(peav_oldb, 1, <<"1">>),
        FeedRow(<<"x">>, lull_lull, <<">", "2">>, <<">", "1">>, <<"7">>, <<"2">>)>> }

InitServe ==
    /\ csv_results \in ServeFeeds
    /\ csv_site_loc = ServeCatalog
    /\ Unloaded
    /\ Unserved

\* The readers, each asked about turbidity and about peav@oldb.
UpdateGraphServe == UpdateGraphOf({"tubidity"})

GetSiteInfoServe == GetSiteInfoOf({peav_oldb})

GetTrendsServe == GetTrendsOf({peav_oldb}, {"tubidity"}, {1, MaxWeeks})

CompareSitesServe == CompareSitesOf({"tubidity"})

NextServe ==
    \/ NextRefresh
    \/ UpdateGraphServe
    \/ PickNearestSite
    \/ PickStep
    \/ PickReturn
    \/ GetSiteInfoServe
    \/ GetTrendsServe
    \/ CompareSitesServe

SpecServe == InitServe /\ [][NextServe]_vars

\* Some reader has run.
HasRead == npc # "idle" \/ tool.name # "none" \/ bar_dat.col_chosen # "none"

\* The values the dropdown can hold: the layout's, or a site pick_nearest_site
\* selected.
DropdownValues(R) == {R.sampling_sites} \cup {r.site_full : r \in RowSet(R.site)}

\* What a reader got is what the finished tables give.
ReadFrom(R) ==
    /\ bar_dat.col_chosen # "none" =>
          \E v \in DropdownValues(R) :
             LET Chosen(r) == r.site_full = v
             IN  bar_dat.rows = SelectSeq(R.df, Chosen)
    /\ npc # "idle" => idx <= Len(R.site) + 1
    /\ tool.name = "get_site_info" =>
          tool.ret = get_site_info(R.df, R.site_loc, tool.site_name)
    /\ tool.name = "get_trends" =>
          tool.ret = get_trends(R.df, tool.site_name, tool.measurement, tool.weeks)
    /\ tool.name = "compare_sites" =>
          tool.ret = compare_sites(R.df, tool.measurement)

----------------------------------------------------------------------------
\* C17, under SpecToken: the state after line 78 (pc = "dropnull") holds the
\* code extracted from the row's token.

\* Code c stands in text t from position p on.
OccursAt(c, t, p) ==
    \A i \in 1..Len(c) : p + i - 1 <= Len(t) /\ t[p + i - 1] = c[i]

\* The catalog codes the lower-cased token holds.
CodesHeld == {CatalogCodes[k] : k \in {j \in 1..Len(CatalogCodes) :
                                          IsSubstring(CatalogCodes[j], Lower(RawToken))}}

SeveralCodesHeld ==
    pc = "dropnull" /\ RawToken # NA /\ Cardinality(CodesHeld) > 1

\* C17 as stated: of the codes the token holds, the one listed first in the
\* catalog is picked, wherever in the token the codes stand.
C17_Original ==
    SeveralCodesHeld =>
        \E k \in 1..Len(CatalogCodes) :
            /\ CatalogCodes[k] \in CodesHeld
            /\ \A j \in 1..(k - 1) : CatalogCodes[j] \notin CodesHeld
            /\ df[1].site = CatalogCodes[k]

\* C17, amended: the code picked is the one standing leftmost in the
\* lower-cased token, and of the codes standing at that same leftmost place
\* the one listed first in the catalog.
C17_LeftmostThenCatalogOrder ==
    SeveralCodesHeld =>
        LET t == Lower(RawToken)
        IN  \E k \in 1..Len(CatalogCodes), p \in 1..Len(t) :
                /\ OccursAt(CatalogCodes[k], t, p)
                /\ \A j \in 1..Len(CatalogCodes), q \in 1..Len(t) :
                      OccursAt(CatalogCodes[j], t, q) => (p < q \/ (p = q /\ k <= j))
                /\ df[1].site = CatalogCodes[k]

\* The token "ab" with the catalog b, ab: the code listed second stands
\* leftmost and is the one picked.
C17_Witness ==
    /\ SeveralCodesHeld
    /\ Len(CatalogCodes) = 2
    /\ df[1].site = CatalogCodes[2]
    /\ CatalogCodes[1] \in CodesHeld
    /\ CatalogCodes[1] # CatalogCodes[2]

----------------------------------------------------------------------------
\* C18, under SpecToken.

\* Lines 76-80 have run.
SiteResolved == pc \notin {"read_csv", "lower", "extract", "dropnull"}

CatalogCodeSet == {CatalogCodes[k] : k \in 1..Len(CatalogCodes)}

\* The feed rows whose token holds a catalog code.
TokensHoldingCode ==
    {k \in 1..Len(csv_results) :
        /\ csv_results[k].site # NA
        /\ ~HoldsNoCode(Lower(csv_results[k].site))}

\* C18: in every state after site resolution, every row of the samples, of
\* the weekly buckets, of the latest buckets and of the summary set carries a
\* code of the catalog, and the samples are no more than the feed rows whose
\* token holds a catalog code: a row whose token holds none is in none of them.
C18_SamplesCarryCatalogCode ==
    SiteResolved =>
        /\ \A r \in RowSet(df) \cup RowSet(df_recent) \cup RowSet(site) :
              r.site \in CatalogCodeSet
        /\ Len(df) <= Cardinality(TokensHoldingCode)

\* A token longer than the code it holds, partly in upper case, was resolved
\* and its sample is in the served buckets and in the summary set.
C18_Witness ==
    /\ pc = "serve"
    /\ Len(RawToken) > Len(peav_oldb)
    /\ RawToken # Lower(RawToken)
    /\ \E r \in RowSet(df) : r.site = peav_oldb
    /\ \E r \in RowSet(site) : r.site = peav_oldb /\ r.WeekDate # NA

\* A token that holds no code: its row is gone after site resolution.
C18_WitnessDropped ==
    /\ pc = "clean"
    /\ RawToken # NA
    /\ HoldsNoCode(Lower(RawToken))
    /\ Len(df) = Len(csv_results) - 1

----------------------------------------------------------------------------
\* C19, under SpecAgg: from the grouping on, df holds the weekly buckets.

Bucketed == pc \in {"recent", "merge", "layout", "serve", "raised_layout"}

\* The cleaned samples the grouping reads.
CleanedSamples == MapSiteFull(Cleaned(csv_results, csv_site_loc).df)

\* The samples of bucket b among S, and those with a value in column col.
SamplesOf(S, b) ==
    {k \in 1..Len(S) : S[k].site = b.site /\ S[k].WeekDate = b.WeekDate}

WithValue(S, b, col) == {k \in SamplesOf(S, b) : S[k][col] # NA}

\* The sum of the whole numbers in column col of the samples K.
RECURSIVE IntSum(_, _, _)
IntSum(S, col, K) ==
    IF K = {} THEN 0
    ELSE LET k == CHOOSE j \in K : TRUE
         IN  S[k][col][2] + IntSum(S, col, K \ {k})

----------------------------------------------------------------------------
\* SpecWeek: the script run on three samples of one site, two dated on any of
\* the days 0..MaxDay and one on day 7, and a sample of a second site.  Day 0
\* is a Monday.

WeekFeeds ==
    {<<TubRow(peav_oldb, d1, <<"1">>), TubRow(peav_oldb, d2, <<"2">>),
       TubRow(peav_oldb, 7, <<"1">>), TubRow(lull_lull, 0, <<"2">>)>> :
        d1 \in 0..MaxDay, d2 \in 0..MaxDay}

InitWeek ==
    /\ csv_results \in WeekFeeds
    /\ csv_site_loc = TwoSites
    /\ Unloaded
    /\ Unserved

SpecWeek == InitWeek /\ [][NextRefresh]_vars

\* The day number the date text of feed row k writes.
FeedDay(k) == ValueOf(csv_results[k].Date)

\* The Monday that starts the Monday-to-Sunday week of day d.
MondayOf(d) == CHOOSE m \in 0..d : m % 7 = 0 /\ m <= d /\ d < m + 7

SameWeek(j, k) == MondayOf(FeedDay(j)) = MondayOf(FeedDay(k))

\* The bucket of feed row k among the weekly buckets.
BucketOfRow(k) ==
    CHOOSE b \in RowSet(df) :
        /\ b.site = csv_results[k].site
        /\ b.WeekDate = DateCell(MondayOf(FeedDay(k)) + 2)

\* C20: the week of a sample is the Monday of the Monday-to-Sunday week of
\* its date plus 2 days, whatever else the sample holds; two samples of one
\* site are in one bucket if and only if their dates lie in the same
\* Monday-to-Sunday week, so the seven days of a week share one week date.
C20_WeekFromDateOnly ==
    /\ pc = "site_full" =>
          /\ Len(df) = Len(csv_results)
          /\ \A k \in 1..Len(df) :
                df[k].WeekDate = DateCell(MondayOf(FeedDay(k)) + 2)
          /\ \A j, k \in 1..Len(df) :
                (df[j].WeekDate = df[k].WeekDate) <=> SameWeek(j, k)
    /\ Bucketed =>
          /\ \A k \in 1..Len(csv_results) :
                \E b \in RowSet(df) :
                    /\ b.site = csv_results[k].site
                    /\ b.WeekDate = DateCell(MondayOf(FeedDay(k)) + 2)
          /\ \A j, k \in 1..Len(csv_results) :
                csv_results[j].site = csv_results[k].site =>
                    ((BucketOfRow(j) = BucketOfRow(k)) <=> SameWeek(j, k))
          /\ \A a, b \in RowSet(df) :
                (a.site = b.site /\ a.WeekDate = b.WeekDate) => a = b

\* A Monday and the Sunday after it share a bucket, dated the Wednesday
\* between them; the Monday after that Sunday is in the next bucket.
C20_Witness ==
    /\ pc = "serve"
    /\ FeedDay(1) = 0 /\ FeedDay(2) = 6 /\ FeedDay(3) = 7
    /\ Len(df) = 3
    /\ BucketOfRow(1) = BucketOfRow(2)
    /\ BucketOfRow(1).WeekDate = DateCell(2)
    /\ BucketOfRow(1).tubidity = <<"num", 3, 2>>
    /\ BucketOfRow(3).WeekDate = DateCell(9)

----------------------------------------------------------------------------
\* C21, under SpecNearest: the loop of pick_nearest_site between two
\* iterations (npc = "loop"); responses holds what the sites processed so far
\* returned, one response per row of the site table.

InitialBest == [site |-> None, meters |-> FloatInf, time |-> None]

\* The running best is row k with the distance and time of row k's route.
BestIsRow(k) ==
    /\ best.site = site[k].site_full
    /\ best.meters = <<Dist(k)>>
    /\ best.time = <<Time(k)>>

BestOfProcessed ==
    IF RouteIdx = {} THEN best = InitialBest
    ELSE \E k \in RouteIdx : BestIsRow(k) /\ IsMinimal(k)

\* One iteration does not raise best_meters.
MetersNotRaised ==
    (npc = "loop" /\ npc' = "loop" /\ best.meters # FloatInf) =>
        /\ best'.meters # FloatInf
        /\ best'.meters[1] <= best.meters[1]

\* C21: after each processed site the running best is the initial
\* (None, infinity, None) when no site so far returned a route; otherwise its
\* three components are those of one and the same route response, its
\* distance is at most that of every route returned so far, and an iteration
\* never raises best_meters.
C21_FoldInvariant ==
    /\ [](npc = "loop" => (Len(responses) = idx - 1 /\ BestOfProcessed))
    /\ [][MetersNotRaised]_vars

\* Three sites processed: the first has no route, the second a route, the
\* third a shorter route with another walking time, which is the running best.
C21_Witness ==
    /\ npc = "loop" /\ idx = 4
    /\ responses[1].directions = <<>>
    /\ RouteIdx = {2, 3}
    /\ Dist(3) < Dist(2) /\ Time(3) # Time(2)
    /\ BestIsRow(3)

----------------------------------------------------------------------------
\* C22, under SpecNearest: sampling_sites is the value of the dropdown,
\* written by Dash from what the callback returns.

\* The call had an address, no request raised and some site returned a route.
Succeeded == Resolved /\ ~AnyRaised /\ RouteIdx # {}

\* The step ends a call (or is a call that ends at once).
CallEnds == npc' = "done" /\ (npc = "loop" \/ address' = <<>>)

SelectionOnlyOnSuccess ==
    /\ sampling_sites' # sampling_sites => (CallEnds /\ Succeeded')
    /\ (CallEnds /\ ~Succeeded') =>
          /\ sampling_sites' = sampling_sites
          /\ \/ address' = <<>> /\ ret'.kind = "raise" /\ UNCHANGED distance_alert
             \/ address' # <<>> /\ ret'.kind = "return" /\ ret'.value = no_update
    /\ (CallEnds /\ Succeeded') =>
          /\ ret'.kind = "return"
          /\ ret'.children.text = "Closest monitoring site"
          /\ sampling_sites' = ret'.children.site
          /\ sampling_sites' = best.site
          /\ distance_alert'.children = ret'.children
          /\ \E k \in RouteIdx' : IsMinimal(k)' /\ sampling_sites' = site[k].site_full

\* C22: the selection is changed only by a call that succeeds; a call with
\* an empty address, a call in which no site returned a route and a call in
\* which a request raised leave it as it was; a call that succeeds sets it to
\* the best site, the one the message names.
C22_SelectionOnlyOnSuccess == [][SelectionOnlyOnSuccess]_vars

\* A call succeeded and moved the selection away from the value the layout
\* gave it; the alert names the selected site.
C22_Witness ==
    /\ Succeeded
    /\ sampling_sites # Refresh(csv_results, csv_site_loc).sampling_sites
    /\ sampling_sites = ret.value
    /\ sampling_sites # NA
    /\ distance_alert.children.site = sampling_sites
    /\ distance_alert.is_open

----------------------------------------------------------------------------
\* C23, under SpecToken: the feed's rows are dated, so a row is resolved when
\* its token holds a catalog code.

\* The code feed row k resolves to, and the week of its date.
ResolvedCode(k) == Extract(CatalogCodes, Lower(csv_results[k].site))

WeekOfRow(k) == WeekDate(ToDatetime(Strip(csv_results[k].Date)))

\* The buckets feed row k contributes to.
BucketsOfRow(k) ==
    {j \in 1..Len(df) :
        df[j].site = ResolvedCode(k) /\ df[j].WeekDate = WeekOfRow(k)}

\* C23 as stated: every feed row that resolved to a catalog site and has a
\* date is in exactly one weekly bucket of that site, whether color_map names
\* the site or not.
C23_Original ==
    Bucketed =>
        \A k \in TokensHoldingCode :
            csv_results[k].Date # NA => Cardinality(BucketsOfRow(k)) = 1

\* The same for the sites color_map names.
C23_MappedSitesKept ==
    Bucketed =>
        \A k \in TokensHoldingCode :
            (csv_results[k].Date # NA /\ MapColor(ResolvedCode(k)) # NA) =>
                Cardinality(BucketsOfRow(k)) = 1

============================================================================
